---- MODULE Spec2Model ----
(***************************************************************************)
(* The history manager of react-history-state: the reducer historyReducer  *)
(* and the closure createHistoryManager that holds one HistoryState and    *)
(* replaces it on every call.                                              *)
(*                                                                         *)
(* JavaScript arrays are 0-based, TLA+ sequences are 1-based: element k of *)
(* a JavaScript array is element k + 1 of the sequence that models it.     *)
(* currentIndex and every index argument keep their JavaScript (0-based)   *)
(* values.                                                                 *)
(***************************************************************************)
EXTENDS Integers, Sequences, FiniteSets, TLC

\* ---------------------------------------------------------------- bounds

\* Snapshot values T are modelled by the integers 0..MaxValue.
MaxValue == 1

\* Managers are created with maxHistory in 1..MaxHistoryBound.
MaxHistoryBound == 3

\* goToIndex is called with indices from -IndexSlack to MaxHistoryBound + IndexSlack.
IndexSlack == 2

Values == 0..MaxValue

Indices == (0 - IndexSlack)..(MaxHistoryBound + IndexSlack)

\* The hook is given maxHistory in 1..MaxHookHistory.
MaxHookHistory == 2

\* At most MaxBatch calls of the hook's functions are made between two renders.
MaxBatch == 2

\* A manager created with maxHistory = 0 is written to until its history has
\* MaxUnboundedLength entries.
MaxUnboundedLength == 3

\* Length of the log of consecutive writes kept for the eviction property.
WriteLogLen == MaxHistoryBound + 1

\* ------------------------------------------------- JavaScript primitives

MathMax(a, b) == IF a >= b THEN a ELSE b

MathMin(a, b) == IF a <= b THEN a ELSE b

\* Array.prototype.slice(start, end): negative arguments count from the end,
\* both are clamped into 0..length, the result is [start, end).
slice(arr, start, end) ==
  LET len == Len(arr)
      k == IF start < 0 THEN MathMax(len + start, 0) ELSE MathMin(start, len)
      final == IF end < 0 THEN MathMax(len + end, 0) ELSE MathMin(end, len)
  IN SubSeq(arr, k + 1, final)

\* Array.prototype.slice(start): end defaults to the length.
sliceFrom(arr, start) == slice(arr, start, Len(arr))

\* arr[i] for a 0-based index i inside the array.
At(arr, i) == arr[i + 1]

\* ------------------------------------------------------- historyReducer

\* SET_STATE with the maxHistory trimming left out.
SET_STATE_untrimmed(state, payload, options) ==
  LET newHistory == Append(slice(state.history, 0, state.currentIndex + 1), payload)
  IN [state EXCEPT !.history = newHistory,
                   !.currentIndex = Len(newHistory) - 1]

\* SET_STATE trimming from the wrong end: slice(0, maxHistory) keeps the oldest.
SET_STATE_keepOldest(state, payload, options) ==
  LET newHistory == Append(slice(state.history, 0, state.currentIndex + 1), payload)
      trimmedHistory == IF Len(newHistory) > options.maxHistory
                        THEN slice(newHistory, 0, options.maxHistory)
                        ELSE newHistory
  IN [state EXCEPT !.history = trimmedHistory,
                   !.currentIndex = Len(trimmedHistory) - 1]

\* SET_STATE appending to the whole history instead of history.slice(0, currentIndex + 1).
SET_STATE_keepFuture(state, payload, options) ==
  LET newHistory == Append(state.history, payload)
      trimmedHistory == IF Len(newHistory) > options.maxHistory
                        THEN sliceFrom(newHistory, 0 - options.maxHistory)
                        ELSE newHistory
  IN [state EXCEPT !.history = trimmedHistory,
                   !.currentIndex = Len(trimmedHistory) - 1]

\* SET_STATE trimming one write late: the length test is off by one.
SET_STATE_lateTrim(state, payload, options) ==
  LET newHistory == Append(slice(state.history, 0, state.currentIndex + 1), payload)
      trimmedHistory == IF Len(newHistory) > options.maxHistory + 1
                        THEN sliceFrom(newHistory, 0 - options.maxHistory)
                        ELSE newHistory
  IN [state EXCEPT !.history = trimmedHistory,
                   !.currentIndex = Len(trimmedHistory) - 1]

\* SET_STATE skipping a write of the value that is already current.
SET_STATE_deduplicating(state, payload, options) ==
  IF payload = At(state.history, state.currentIndex)
  THEN state
  ELSE LET newHistory == Append(slice(state.history, 0, state.currentIndex + 1), payload)
           trimmedHistory == IF Len(newHistory) > options.maxHistory
                             THEN sliceFrom(newHistory, 0 - options.maxHistory)
                             ELSE newHistory
       IN [state EXCEPT !.history = trimmedHistory,
                        !.currentIndex = Len(trimmedHistory) - 1]

\* SET_STATE keeping the last maxHistory entries as a count: none for 0.
SET_STATE_keepLastN(state, payload, options) ==
  LET newHistory == Append(slice(state.history, 0, state.currentIndex + 1), payload)
      trimmedHistory == IF Len(newHistory) > options.maxHistory
                        THEN SubSeq(newHistory, Len(newHistory) - options.maxHistory + 1,
                                    Len(newHistory))
                        ELSE newHistory
  IN [state EXCEPT !.history = trimmedHistory,
                   !.currentIndex = Len(trimmedHistory) - 1]

\* SET_STATE making room in a full history before it truncates at the cursor.
SET_STATE_trimBeforeTruncate(state, payload, options) ==
  LET full == Len(state.history) >= options.maxHistory
      base == IF full THEN sliceFrom(state.history, 1) ELSE state.history
      index == IF full THEN state.currentIndex - 1 ELSE state.currentIndex
      newHistory == Append(slice(base, 0, MathMax(index + 1, 0)), payload)
  IN [state EXCEPT !.history = newHistory,
                   !.currentIndex = Len(newHistory) - 1]

\* case 'SET_STATE'
SET_STATE(state, payload, options) ==
  LET newHistory == Append(slice(state.history, 0, state.currentIndex + 1), payload)
      trimmedHistory == IF Len(newHistory) > options.maxHistory
                        THEN sliceFrom(newHistory, 0 - options.maxHistory)
                        ELSE newHistory
  IN [state EXCEPT !.history = trimmedHistory,
                   !.currentIndex = Len(trimmedHistory) - 1]

\* UNDO without the currentIndex > 0 test.
UNDO_unguarded(state) ==
  [state EXCEPT !.currentIndex = state.currentIndex - 1]

\* UNDO going back to the oldest entry instead of one step.
UNDO_toOldest(state) ==
  IF state.currentIndex > 0
  THEN [state EXCEPT !.currentIndex = 0]
  ELSE state

\* case 'UNDO'
UNDO(state) ==
  IF state.currentIndex > 0
  THEN [state EXCEPT !.currentIndex = state.currentIndex - 1]
  ELSE state

\* REDO without the options.enableRedo test.
REDO_alwaysEnabled(state, options) ==
  IF state.currentIndex < Len(state.history) - 1
  THEN [state EXCEPT !.currentIndex = state.currentIndex + 1]
  ELSE state

\* case 'REDO'
\* REDO going forward to the newest entry instead of one step.
REDO_toNewest(state, options) ==
  IF options.enableRedo /\ state.currentIndex < Len(state.history) - 1
  THEN [state EXCEPT !.currentIndex = Len(state.history) - 1]
  ELSE state

REDO(state, options) ==
  IF options.enableRedo /\ state.currentIndex < Len(state.history) - 1
  THEN [state EXCEPT !.currentIndex = state.currentIndex + 1]
  ELSE state

\* RESET going back to the oldest retained entry instead of initialState.
RESET_toOldest(state) ==
  [state EXCEPT !.history = <<At(state.history, 0)>>, !.currentIndex = 0]

\* case 'RESET'
RESET(state) ==
  [state EXCEPT !.history = <<state.initialState>>, !.currentIndex = 0]

\* CLEAR keeping the newest entry instead of the current one.
CLEAR_keepNewest(state) ==
  LET currentState == At(state.history, Len(state.history) - 1)
  IN [state EXCEPT !.history = <<currentState>>, !.currentIndex = 0]

\* CLEAR doing what RESET does: going back to initialState.
CLEAR_toInitial(state) ==
  [state EXCEPT !.history = <<state.initialState>>, !.currentIndex = 0]

\* CLEAR also taking the kept snapshot as the new initialState.
CLEAR_rebase(state) ==
  LET currentState == At(state.history, state.currentIndex)
  IN [state EXCEPT !.history = <<currentState>>, !.currentIndex = 0,
                   !.initialState = currentState]

\* case 'CLEAR'
CLEAR(state) ==
  LET currentState == At(state.history, state.currentIndex)
  IN [state EXCEPT !.history = <<currentState>>, !.currentIndex = 0]

\* GO_TO_INDEX without the lower clamp Math.max(0, ...).
GO_TO_INDEX_noLowerClamp(state, payload) ==
  LET targetIndex == MathMin(payload, Len(state.history) - 1)
  IN [state EXCEPT !.currentIndex = targetIndex]

\* GO_TO_INDEX dropping the entries after the target, as a write would.
GO_TO_INDEX_truncating(state, payload) ==
  LET targetIndex == MathMax(0, MathMin(payload, Len(state.history) - 1))
  IN [state EXCEPT !.history = slice(state.history, 0, targetIndex + 1),
                   !.currentIndex = targetIndex]

\* GO_TO_INDEX rejecting an index outside the history instead of clamping it.
GO_TO_INDEX_throwing(state, payload) ==
  IF payload < 0 \/ payload > Len(state.history) - 1
  THEN [error |-> "RangeError"]
  ELSE [state EXCEPT !.currentIndex = payload]

\* case 'GO_TO_INDEX'
GO_TO_INDEX(state, payload) ==
  LET targetIndex == MathMax(0, MathMin(payload, Len(state.history) - 1))
  IN [state EXCEPT !.currentIndex = targetIndex]

\* The reducer refusing a jump forward when enableRedo is false.
historyReducer_guardedJump(state, action, options) ==
  CASE action.type = "SET_STATE" -> SET_STATE(state, action.payload, options)
    [] action.type = "UNDO" -> UNDO(state)
    [] action.type = "REDO" -> REDO(state, options)
    [] action.type = "RESET" -> RESET(state)
    [] action.type = "CLEAR" -> CLEAR(state)
    [] action.type = "GO_TO_INDEX" ->
         IF ~options.enableRedo /\ action.payload > state.currentIndex
         THEN state
         ELSE GO_TO_INDEX(state, action.payload)
    [] OTHER -> state

historyReducer(state, action, options) ==
  CASE action.type = "SET_STATE" -> SET_STATE(state, action.payload, options)
    [] action.type = "UNDO" -> UNDO(state)
    [] action.type = "REDO" -> REDO(state, options)
    [] action.type = "RESET" -> RESET(state)
    [] action.type = "CLEAR" -> CLEAR(state)
    [] action.type = "GO_TO_INDEX" -> GO_TO_INDEX(state, action.payload)
    [] OTHER -> state

\* JavaScript's undefined and null, kept apart from the snapshot values 0..MaxValue.
Undefined == 0 - 1

Null == 0 - 2

\* arr[i] for any integer i: undefined outside the array.
Read(arr, i) == IF i + 1 \in DOMAIN arr THEN arr[i + 1] ELSE Undefined

\* a ?? b
Nullish(a, b) == IF a \in {Null, Undefined} THEN b ELSE a

\* The hook's state, canUndo and canRedo, computed from a HistoryState.
resultState(historyState) ==
  Nullish(Read(historyState.history, historyState.currentIndex), historyState.initialState)

canUndo(state) == state.currentIndex > 0

\* canRedo computed without looking at enableRedo.
canRedo_ignoringOption(state, options) ==
  state.currentIndex < Len(state.history) - 1

canRedo(state, options) ==
  options.enableRedo /\ state.currentIndex < Len(state.history) - 1

\* ------------------------------------------------- createHistoryManager

VARIABLES
  currentState,  \* the HistoryState held by the manager's closure
  options,       \* the options the manager was created with
  created,       \* the arguments createHistoryManager was called with
  last,          \* the latest call: its action and the state it was applied to
  prior,         \* the call before the latest one, in summary
  writes,        \* values of the setState calls made in a row up to now
  returned,      \* the HistoryState the latest call returned
  handed         \* the HistoryState the latest mutating call returned

managerVars == <<currentState, options, created, last, prior, writes, returned, handed>>

\* A seed that already holds the initial value as a first write.
seed_writesInitial(initialState) ==
  [history |-> <<initialState, initialState>>, currentIndex |-> 1,
   initialState |-> initialState]

\* The state held right after createHistoryManager(initialState, options).
seed(initialState) ==
  [history |-> <<initialState>>, currentIndex |-> 0, initialState |-> initialState]

call(type, payload) == [type |-> type, payload |-> payload, pre |-> currentState]

\* What is kept of a call once another call follows it: its type, and the
\* cursor, length and current snapshot of the state it was applied to.
summary(c) ==
  [type |-> c.type,
   index |-> c.pre.currentIndex,
   length |-> Len(c.pre.history),
   current |-> At(c.pre.history, c.pre.currentIndex)]

\* The manager right after createHistoryManager(initialState, { maxHistory, enableRedo }).
newManager(initialState, maxHistory, enableRedo) ==
  /\ currentState = seed(initialState)
  /\ options = [maxHistory |-> maxHistory, enableRedo |-> enableRedo]
  /\ created = [initialState |-> currentState.initialState, options |-> options]
  /\ last = [type |-> "CREATE", payload |-> 0, pre |-> currentState]
  /\ prior = summary(last)
  /\ writes = <<>>
  /\ returned = currentState
  /\ handed = currentState

createHistoryManager ==
  \E initialState \in Values, maxHistory \in 1..MaxHistoryBound, enableRedo \in BOOLEAN :
    newManager(initialState, maxHistory, enableRedo)

\* getState() handing out the seed state instead of the held one.
getState_returnsSeed ==
  /\ returned' = seed(currentState.initialState)
  /\ last' = call("GET_STATE", 0)
  /\ prior' = summary(last)
  /\ UNCHANGED <<currentState, options, created, writes, handed>>

getState ==
  /\ returned' = currentState
  /\ last' = call("GET_STATE", 0)
  /\ prior' = summary(last)
  /\ UNCHANGED <<currentState, options, created, writes, handed>>

setState(value) ==
  /\ currentState' = historyReducer(currentState, [type |-> "SET_STATE", payload |-> value], options)
  /\ returned' = currentState'
  /\ handed' = returned'
  /\ last' = call("SET_STATE", value)
  /\ writes' = sliceFrom(Append(writes, value), 0 - WriteLogLen)
  /\ prior' = summary(last)
  /\ UNCHANGED <<options, created>>

undo ==
  /\ currentState' = historyReducer(currentState, [type |-> "UNDO"], options)
  /\ returned' = currentState'
  /\ handed' = returned'
  /\ last' = call("UNDO", 0)
  /\ writes' = <<>>
  /\ prior' = summary(last)
  /\ UNCHANGED <<options, created>>

redo ==
  /\ currentState' = historyReducer(currentState, [type |-> "REDO"], options)
  /\ returned' = currentState'
  /\ handed' = returned'
  /\ last' = call("REDO", 0)
  /\ writes' = <<>>
  /\ prior' = summary(last)
  /\ UNCHANGED <<options, created>>

reset ==
  /\ currentState' = historyReducer(currentState, [type |-> "RESET"], options)
  /\ returned' = currentState'
  /\ handed' = returned'
  /\ last' = call("RESET", 0)
  /\ writes' = <<>>
  /\ prior' = summary(last)
  /\ UNCHANGED <<options, created>>

clear ==
  /\ currentState' = historyReducer(currentState, [type |-> "CLEAR"], options)
  /\ returned' = currentState'
  /\ handed' = returned'
  /\ last' = call("CLEAR", 0)
  /\ writes' = <<>>
  /\ prior' = summary(last)
  /\ UNCHANGED <<options, created>>

goToIndex(index) ==
  /\ currentState' = historyReducer(currentState, [type |-> "GO_TO_INDEX", payload |-> index], options)
  /\ returned' = currentState'
  /\ handed' = returned'
  /\ last' = call("GO_TO_INDEX", index)
  /\ writes' = <<>>
  /\ prior' = summary(last)
  /\ UNCHANGED <<options, created>>

\* ------------------------------------------- the manager's objects by reference
\*
\* The same reducer with its objects kept in a heap: a HistoryState is a
\* record object and its history an array object, both named by references, so
\* that an assignment to a field or a push on an array shows in every holder
\* of the reference.  A call starts from the heap that holds the state in
\* currentState (record 1 with array 1) and ends in a heap with the objects
\* the reducer made; what the returned reference shows becomes currentState.

\* References of array objects and of HistoryState record objects: the ones
\* that exist before a call, and room for those one call can make.
ArrayRefs == 1..3

RecordRefs == 1..2

VARIABLES
  heapLast   \* the latest call on the heap: its type, the cursor and length before it, and what it did to the objects

heapVars == <<heapLast>>

\* The smallest reference of refs not in use in the object table f.
alloc(f, refs) == CHOOSE r \in refs \ DOMAIN f : \A q \in refs \ DOMAIN f : r <= q

\* The object table f with a new object v at reference r.
Extend(f, r, v) == [x \in DOMAIN f \cup {r} |-> IF x = r THEN v ELSE f[x]]

\* The heap that holds the HistoryState value s as record 1 with array 1.
heapOf(s) ==
  [arrays |-> Extend(<<>>, 1, s.history),
   records |-> Extend(<<>>, 1, [s EXCEPT !.history = 1])]

\* The HistoryState value the record reference r shows in the heap H.
deref(H, r) ==
  [history |-> H.arrays[H.records[r].history],
   currentIndex |-> H.records[r].currentIndex,
   initialState |-> H.records[r].initialState]

\* A new record object { ...fields } in the heap H; the result names it in state.
newRecord(H, fields) ==
  LET r == alloc(H.records, RecordRefs)
  IN [arrays |-> H.arrays, records |-> Extend(H.records, r, fields), state |-> r]

\* SET_STATE truncating and pushing on state.history itself instead of on a copy.
heapSET_STATE_inPlace(H, state, payload, opts) ==
  LET s == H.records[state]
      a1 == s.history
      arrays2 == [H.arrays EXCEPT ![a1] = Append(slice(@, 0, s.currentIndex + 1), payload)]
      over == Len(arrays2[a1]) > opts.maxHistory
      a2 == alloc(arrays2, ArrayRefs)
      arrays3 == IF over
                 THEN Extend(arrays2, a2, sliceFrom(arrays2[a1], 0 - opts.maxHistory))
                 ELSE arrays2
      trimmedHistory == IF over THEN a2 ELSE a1
  IN newRecord([arrays |-> arrays3, records |-> H.records],
               [s EXCEPT !.history = trimmedHistory,
                         !.currentIndex = Len(arrays3[trimmedHistory]) - 1])

\* case 'SET_STATE': slice makes a new array, push appends to that new array,
\* the trimming slice makes another one, the spread makes a new record.
heapSET_STATE(H, state, payload, opts) ==
  LET s == H.records[state]
      a1 == alloc(H.arrays, ArrayRefs)
      arrays1 == Extend(H.arrays, a1, slice(H.arrays[s.history], 0, s.currentIndex + 1))
      arrays2 == [arrays1 EXCEPT ![a1] = Append(@, payload)]
      over == Len(arrays2[a1]) > opts.maxHistory
      a2 == alloc(arrays2, ArrayRefs)
      arrays3 == IF over
                 THEN Extend(arrays2, a2, sliceFrom(arrays2[a1], 0 - opts.maxHistory))
                 ELSE arrays2
      trimmedHistory == IF over THEN a2 ELSE a1
  IN newRecord([arrays |-> arrays3, records |-> H.records],
               [s EXCEPT !.history = trimmedHistory,
                         !.currentIndex = Len(arrays3[trimmedHistory]) - 1])

\* case 'UNDO': a new record sharing the history array, or the same record.
heapUNDO(H, state) ==
  LET s == H.records[state]
  IN IF s.currentIndex > 0
     THEN newRecord(H, [s EXCEPT !.currentIndex = s.currentIndex - 1])
     ELSE [arrays |-> H.arrays, records |-> H.records, state |-> state]

\* case 'REDO'
heapREDO(H, state, opts) ==
  LET s == H.records[state]
  IN IF opts.enableRedo /\ s.currentIndex < Len(H.arrays[s.history]) - 1
     THEN newRecord(H, [s EXCEPT !.currentIndex = s.currentIndex + 1])
     ELSE [arrays |-> H.arrays, records |-> H.records, state |-> state]

\* case 'RESET': a new one-element array and a new record.
heapRESET(H, state) ==
  LET s == H.records[state]
      a == alloc(H.arrays, ArrayRefs)
  IN newRecord([arrays |-> Extend(H.arrays, a, <<s.initialState>>), records |-> H.records],
               [s EXCEPT !.history = a, !.currentIndex = 0])

\* case 'CLEAR'
heapCLEAR(H, state) ==
  LET s == H.records[state]
      current == At(H.arrays[s.history], s.currentIndex)
      a == alloc(H.arrays, ArrayRefs)
  IN newRecord([arrays |-> Extend(H.arrays, a, <<current>>), records |-> H.records],
               [s EXCEPT !.history = a, !.currentIndex = 0])

\* case 'GO_TO_INDEX'
heapGO_TO_INDEX(H, state, payload) ==
  LET s == H.records[state]
      targetIndex == MathMax(0, MathMin(payload, Len(H.arrays[s.history]) - 1))
  IN newRecord(H, [s EXCEPT !.currentIndex = targetIndex])

heapReducer(H, state, action, opts) ==
  CASE action.type = "SET_STATE" -> heapSET_STATE(H, state, action.payload, opts)
    [] action.type = "UNDO" -> heapUNDO(H, state)
    [] action.type = "REDO" -> heapREDO(H, state, opts)
    [] action.type = "RESET" -> heapRESET(H, state)
    [] action.type = "CLEAR" -> heapCLEAR(H, state)
    [] action.type = "GO_TO_INDEX" -> heapGO_TO_INDEX(H, state, action.payload)
    [] OTHER -> [arrays |-> H.arrays, records |-> H.records, state |-> state]

\* No call on the heap yet.
HeapIdle ==
  heapLast = [type |-> "CREATE", index |-> 0, length |-> 1,
              sameRecord |-> FALSE, mutated |-> FALSE, changed |-> FALSE]

\* A manager method run on the heap: the reducer's result replaces the held
\* reference and is returned.  heapLast records whether the returned record
\* is the one held before (sameRecord), whether an object that existed before
\* the call has other contents after it (mutated), and whether the state shown
\* by the returned reference differs from the one held before (changed).
heapCall(action) ==
  LET H == heapOf(currentState)
      out == heapReducer(H, 1, action, options)
  IN /\ currentState' = deref(out, out.state)
     /\ returned' = currentState'
     /\ heapLast' = [type |-> action.type,
                     index |-> currentState.currentIndex,
                     length |-> Len(currentState.history),
                     sameRecord |-> (out.state = 1),
                     mutated |-> \/ \E a \in DOMAIN H.arrays : out.arrays[a] # H.arrays[a]
                                 \/ \E r \in DOMAIN H.records : out.records[r] # H.records[r],
                     changed |-> (deref(out, out.state) # currentState)]
     /\ UNCHANGED <<options, created, last, prior, writes, handed>>

heapGetState == heapCall([type |-> "GET_STATE"])

heapSetState(value) == heapCall([type |-> "SET_STATE", payload |-> value])

heapUndo == heapCall([type |-> "UNDO"])

heapRedo == heapCall([type |-> "REDO"])

heapReset == heapCall([type |-> "RESET"])

heapClear == heapCall([type |-> "CLEAR"])

heapGoToIndex(index) == heapCall([type |-> "GO_TO_INDEX", payload |-> index])

\* ------------------------------------------------------- useHistoryState
\*
\* The hook around one manager.  historyState is the React state as the
\* callbacks of the latest render see it, reactState the value the latest
\* setHistoryState call stored; a render brings the first up to the second.

\* The delay given as debounceMs when debouncing is on.
DebounceMs == 100

VARIABLES
  hookOptions,         \* debounceMs, and whether an onValueChange callback was given
  historyState,        \* the React state seen by the callbacks of the latest render
  reactState,          \* the React state stored by the latest setHistoryState
  debounceRef,         \* debounceRef.current: whether it is set, whether its timer is still to fire, the value it carries
  mounted,             \* whether the component is mounted
  onValueChangeCalls,  \* the arguments onValueChange was called with during the latest step
  hookLast,            \* the latest step of the hook: see step below
  batch,               \* the number of calls of the hook's functions since the latest render
  props,               \* the options object the hook was called with
  thrown               \* the message of the error the hook threw, "none" if it did not throw

hookVars ==
  <<hookOptions, historyState, reactState, debounceRef, mounted, onValueChangeCalls, hookLast,
    batch, props, thrown>>

\* An option that is not given, an option given as v, and the value the
\* destructuring default gives it.
None == <<>>

Some(v) == <<v>>

orDefault(option, default) == IF option = None THEN default ELSE option[1]

\* const { maxHistory = 50, ... } = options
DefaultMaxHistory == 50

\* The options object {}.
NoOptions ==
  [maxHistory |-> None, debounceMs |-> None, enableRedo |-> None, onValueChange |-> FALSE]

\* The checks with maxHistory compared to 0 instead of 1.
validateOptions_zeroAllowed(opts) ==
  IF opts.maxHistory # None /\ opts.maxHistory[1] < 0
  THEN "maxHistory must be a positive number"
  ELSE IF opts.debounceMs # None /\ opts.debounceMs[1] < 0
  THEN "debounceMs must be a non-negative number"
  ELSE "none"

\* The two checks at the top of the hook: the message thrown, "none" if none.
validateOptions(opts) ==
  IF opts.maxHistory # None /\ opts.maxHistory[1] < 1
  THEN "maxHistory must be a positive number"
  ELSE IF opts.debounceMs # None /\ opts.debounceMs[1] < 0
  THEN "debounceMs must be a non-negative number"
  ELSE "none"

\* The destructuring with a default of 0 for maxHistory.
withDefaults_unbounded(opts) ==
  [maxHistory |-> orDefault(opts.maxHistory, 0),
   debounceMs |-> orDefault(opts.debounceMs, 0),
   enableRedo |-> orDefault(opts.enableRedo, TRUE)]

\* const { maxHistory = 50, debounceMs = 0, enableRedo = true } = options
withDefaults(opts) ==
  [maxHistory |-> orDefault(opts.maxHistory, DefaultMaxHistory),
   debounceMs |-> orDefault(opts.debounceMs, 0),
   enableRedo |-> orDefault(opts.enableRedo, TRUE)]

\* What the variables of the manager and of the hook hold when the hook threw
\* before it created them.
NotCreated == [created |-> FALSE]

\* The indices the hook's goToIndex is called with: one below the range,
\* every index a history of the hook can have, and one above.
HookIndices == (0 - 1)..MaxHookHistory

\* What the caller passes to the hook's setState: a value, or a function of the previous value.
Updates ==
  {[function |-> FALSE, value |-> v] : v \in Values} \cup {[function |-> TRUE, value |-> 0]}

\* The one updater function the callers use: the next value, cyclically.
applyUpdater(prev) == (prev + 1) % (MaxValue + 1)

\* The argument recorded for a step that is not a call of setState.
NoUpdate == [function |-> FALSE, value |-> 0]

\* The record of the latest step: its type, whether it wrote to the manager,
\* the argument setState was called with, whether the call cleared a timer
\* still to fire (a timer step: whether the call that set it did), and run:
\* how many calls of this same function were made since the latest render,
\* when nothing else happened since that render (0 otherwise).
step(type, applied, arg, cancelled, run) ==
  [type |-> type, applied |-> applied, arg |-> arg, cancelled |-> cancelled, run |-> run]

\* A step that records no argument, no cleared timer and no run.
plainStep(type, applied) == step(type, applied, NoUpdate, FALSE, 0)

\* The run a call of the function named type continues or starts.
runOf(type) ==
  IF batch = 0 /\ historyState = currentState THEN 1
  ELSE IF hookLast.type = type /\ hookLast.run > 0 THEN hookLast.run + 1
  ELSE 0

\* The hook before it is used, for the specifications without a hook.
HookIdle ==
  /\ hookOptions = [debounceMs |-> 0, onValueChange |-> FALSE]
  /\ historyState = currentState
  /\ reactState = currentState
  /\ debounceRef = [set |-> FALSE, pending |-> FALSE, value |-> 0]
  /\ mounted = FALSE
  /\ onValueChangeCalls = <<>>
  /\ hookLast = plainStep("none", FALSE)
  /\ batch = 0
  /\ props = NoOptions
  /\ thrown = "none"

\* The hook threw during its first render: nothing was created.
threw ==
  /\ currentState = NotCreated
  /\ options = NotCreated
  /\ created = NotCreated
  /\ last = NotCreated
  /\ prior = NotCreated
  /\ writes = <<>>
  /\ returned = NotCreated
  /\ handed = NotCreated
  /\ hookOptions = NotCreated
  /\ historyState = NotCreated
  /\ reactState = NotCreated
  /\ debounceRef = [set |-> FALSE, pending |-> FALSE, value |-> 0]
  /\ mounted = FALSE
  /\ onValueChangeCalls = <<>>
  /\ hookLast = plainStep("throw", FALSE)
  /\ batch = 0

\* The first render of useHistoryState(initialState, opts): the options are
\* checked; then useMemo creates the manager and useState takes getState().
useHistoryState(initialState, opts) ==
  /\ props = opts
  /\ thrown = validateOptions(opts)
  /\ IF validateOptions(opts) # "none"
     THEN threw
     ELSE /\ newManager(initialState, withDefaults(opts).maxHistory, withDefaults(opts).enableRedo)
          /\ hookOptions = [debounceMs |-> withDefaults(opts).debounceMs,
                            onValueChange |-> opts.onValueChange]
          /\ historyState = currentState
          /\ reactState = currentState
          /\ debounceRef = [set |-> FALSE, pending |-> FALSE, value |-> 0]
          /\ mounted = TRUE
          /\ onValueChangeCalls = <<>>
          /\ hookLast = plainStep("mount", FALSE)
          /\ batch = 0

\* What a hook step leaves alone besides what it names.
hookFrame ==
  UNCHANGED <<options, created, last, prior, writes, handed, heapVars, hookOptions, mounted,
              props, thrown>>

\* A function of the hook's result is called by the mounted component.
called ==
  /\ mounted
  /\ batch < MaxBatch
  /\ batch' = batch + 1

\* historyManager.<method>() followed by setHistoryState(newState).
hookCall(action) ==
  /\ currentState' = historyReducer(currentState, action, options)
  /\ returned' = currentState'
  /\ reactState' = currentState'

\* The hook's setState applying the write still to come at once, instead of
\* clearing its timer, when another call arrives.
hookSetState_flushing(value) ==
  LET currentValue ==
        Nullish(Read(historyState.history, historyState.currentIndex), historyState.initialState)
      newValue == IF value.function THEN applyUpdater(currentValue) ELSE value.value
  IN /\ called
     /\ IF hookOptions.debounceMs > 0
        THEN /\ debounceRef' = [set |-> TRUE, pending |-> TRUE, value |-> newValue]
             /\ IF debounceRef.pending
                THEN hookCall([type |-> "SET_STATE", payload |-> debounceRef.value])
                ELSE UNCHANGED <<currentState, returned, reactState>>
        ELSE /\ hookCall([type |-> "SET_STATE", payload |-> newValue])
             /\ UNCHANGED debounceRef
     /\ hookLast' = step("setState", ~(hookOptions.debounceMs > 0), value,
                          hookOptions.debounceMs > 0 /\ debounceRef.pending, runOf("setState"))
     /\ onValueChangeCalls' = <<>>
     /\ UNCHANGED historyState
     /\ hookFrame

\* The hook's setState.
hookSetState(value) ==
  LET currentValue ==
        Nullish(Read(historyState.history, historyState.currentIndex), historyState.initialState)
      newValue == IF value.function THEN applyUpdater(currentValue) ELSE value.value
  IN /\ called
     /\ IF hookOptions.debounceMs > 0
        THEN /\ debounceRef' = [set |-> TRUE, pending |-> TRUE, value |-> newValue]
             /\ UNCHANGED <<currentState, returned, reactState>>
        ELSE /\ hookCall([type |-> "SET_STATE", payload |-> newValue])
             /\ UNCHANGED debounceRef
     /\ hookLast' = step("setState", ~(hookOptions.debounceMs > 0), value,
                          hookOptions.debounceMs > 0 /\ debounceRef.pending, runOf("setState"))
     /\ onValueChangeCalls' = <<>>
     /\ UNCHANGED historyState
     /\ hookFrame

\* The callback given to setTimeout runs.
timerFires ==
  /\ debounceRef.pending
  /\ hookCall([type |-> "SET_STATE", payload |-> debounceRef.value])
  /\ debounceRef' = [debounceRef EXCEPT !.pending = FALSE]
  /\ hookLast' = step("timer", TRUE, NoUpdate,
                       hookLast.type = "setState" /\ hookLast.cancelled, 0)
  /\ onValueChangeCalls' = <<>>
  /\ UNCHANGED <<historyState, batch>>
  /\ hookFrame

\* A step of the hook that also clears the timer of a write still to come.
hookStep_cancelling(type, action) ==
  /\ called
  /\ hookCall(action)
  /\ hookLast' = step(type, FALSE, NoUpdate, FALSE, runOf(type))
  /\ onValueChangeCalls' = <<>>
  /\ debounceRef' = [debounceRef EXCEPT !.pending = FALSE]
  /\ UNCHANGED historyState
  /\ hookFrame

\* A step of the hook that calls one manager method and stores its result.
hookStep(type, action) ==
  /\ called
  /\ hookCall(action)
  /\ hookLast' = step(type, FALSE, NoUpdate, FALSE, runOf(type))
  /\ onValueChangeCalls' = <<>>
  /\ UNCHANGED <<historyState, debounceRef>>
  /\ hookFrame

\* The hook's undo also calling onValueChange with the value it went back to.
hookUndo_notifying ==
  /\ called
  /\ hookCall([type |-> "UNDO"])
  /\ hookLast' = step("undo", FALSE, NoUpdate, FALSE, runOf("undo"))
  /\ onValueChangeCalls' =
       IF hookOptions.onValueChange THEN <<resultState(currentState')>> ELSE <<>>
  /\ UNCHANGED <<historyState, debounceRef>>
  /\ hookFrame

hookUndo == hookStep("undo", [type |-> "UNDO"])

hookRedo == hookStep("redo", [type |-> "REDO"])

hookReset == hookStep("reset", [type |-> "RESET"])

hookClear == hookStep("clear", [type |-> "CLEAR"])

hookGoToIndex(index) == hookStep("goToIndex", [type |-> "GO_TO_INDEX", payload |-> index])

\* The calls made so far are over and React renders: the callbacks of the
\* new render see the value stored by the latest setHistoryState.
render ==
  /\ mounted
  /\ historyState # reactState \/ batch > 0
  /\ historyState' = reactState
  /\ batch' = 0
  /\ hookLast' = plainStep("render", FALSE)
  /\ onValueChangeCalls' = <<>>
  /\ UNCHANGED <<currentState, returned, reactState, debounceRef>>
  /\ hookFrame

\* The component unmounting without the cleanup of the effect.
unmount_leavingTimer ==
  /\ mounted
  /\ mounted' = FALSE
  /\ hookLast' = step("unmount", FALSE, NoUpdate, FALSE, 0)
  /\ onValueChangeCalls' = <<>>
  /\ UNCHANGED <<currentState, returned, historyState, reactState, batch, debounceRef>>
  /\ UNCHANGED <<options, created, last, prior, writes, handed, heapVars, hookOptions,
                 props, thrown>>

\* The component unmounts: the cleanup of the effect clears the timer.
unmount ==
  /\ mounted
  /\ mounted' = FALSE
  /\ debounceRef' = IF debounceRef.set THEN [debounceRef EXCEPT !.pending = FALSE] ELSE debounceRef
  /\ hookLast' = step("unmount", FALSE, NoUpdate, debounceRef.pending, 0)
  /\ onValueChangeCalls' = <<>>
  /\ UNCHANGED <<currentState, returned, historyState, reactState, batch>>
  /\ UNCHANGED <<options, created, last, prior, writes, handed, heapVars, hookOptions,
                 props, thrown>>

\* The component renders again with the arguments initialState and opts:
\* useMemo creates another manager when initialState, maxHistory or
\* enableRedo is not the one of the render before, useState keeps the state
\* it has, and the callbacks of this render call the manager of this render.
rerender(initialState, opts) ==
  /\ mounted
  /\ validateOptions(opts) = "none"
  /\ withDefaults(opts).debounceMs = hookOptions.debounceMs
  /\ IF \/ initialState # created.initialState
        \/ withDefaults(opts).maxHistory # options.maxHistory
        \/ withDefaults(opts).enableRedo # options.enableRedo
     THEN /\ currentState' = seed(initialState)
          /\ options' = [maxHistory |-> withDefaults(opts).maxHistory,
                         enableRedo |-> withDefaults(opts).enableRedo]
          /\ created' = [initialState |-> initialState, options |-> options']
          /\ last' = [type |-> "CREATE", payload |-> 0, pre |-> currentState']
          /\ prior' = summary(last')
          /\ writes' = <<>>
          /\ returned' = currentState'
          /\ handed' = currentState'
     ELSE UNCHANGED managerVars
  /\ props' = opts
  /\ historyState' = reactState
  /\ batch' = 0
  /\ hookLast' = plainStep("rerender", FALSE)
  /\ onValueChangeCalls' = <<>>
  /\ UNCHANGED <<reactState, debounceRef, hookOptions, mounted, thrown, heapVars>>

HookNext ==
  \/ \E value \in Updates : hookSetState(value)
  \/ timerFires
  \/ hookUndo
  \/ hookRedo
  \/ hookReset
  \/ hookClear
  \/ \E index \in HookIndices : hookGoToIndex(index)
  \/ render
  \/ unmount

\* ------------------------------------------------------- specifications

vars == <<managerVars, heapVars, hookVars>>

Init ==
  /\ createHistoryManager
  /\ HeapIdle
  /\ HookIdle

Next ==
  \/ getState /\ UNCHANGED <<heapVars, hookVars>>
  \/ \E value \in Values : setState(value) /\ UNCHANGED <<heapVars, hookVars>>
  \/ undo /\ UNCHANGED <<heapVars, hookVars>>
  \/ redo /\ UNCHANGED <<heapVars, hookVars>>
  \/ reset /\ UNCHANGED <<heapVars, hookVars>>
  \/ clear /\ UNCHANGED <<heapVars, hookVars>>
  \/ \E index \in Indices : goToIndex(index) /\ UNCHANGED <<heapVars, hookVars>>

Spec == Init /\ [][Next]_vars

\* The manager with its objects by reference.
HeapNext ==
  \/ heapGetState /\ UNCHANGED hookVars
  \/ \E value \in Values : heapSetState(value) /\ UNCHANGED hookVars
  \/ heapUndo /\ UNCHANGED hookVars
  \/ heapRedo /\ UNCHANGED hookVars
  \/ heapReset /\ UNCHANGED hookVars
  \/ heapClear /\ UNCHANGED hookVars
  \/ \E index \in Indices : heapGoToIndex(index) /\ UNCHANGED hookVars

HeapSpec == Init /\ [][HeapNext]_vars

\* The hook and its manager, mounted with an onValueChange callback.
HookInit ==
  /\ \E initialState \in Values, maxHistory \in 1..MaxHookHistory,
        debounceMs \in {0, DebounceMs}, enableRedo \in BOOLEAN :
       useHistoryState(initialState,
                       [maxHistory |-> Some(maxHistory), debounceMs |-> Some(debounceMs),
                        enableRedo |-> Some(enableRedo), onValueChange |-> TRUE])
  /\ HeapIdle

HookSpec == HookInit /\ [][HookNext]_vars

\* The options objects the hook is called with, valid or not: no option
\* given, maxHistory or debounceMs given alone, and all three given; a given
\* option is valid or below what the hook accepts.
RawOptions ==
  LET maxHistories == {Some(n) : n \in (0 - 1)..MaxHookHistory}
      debounces == {Some(n) : n \in {0 - DebounceMs, 0 - 1, 0, DebounceMs}}
  IN {NoOptions}
       \cup {[NoOptions EXCEPT !.maxHistory = m] : m \in maxHistories}
       \cup {[NoOptions EXCEPT !.debounceMs = d] : d \in debounces}
       \cup [maxHistory : maxHistories, debounceMs : debounces,
              enableRedo : {Some(TRUE), Some(FALSE)}, onValueChange : {FALSE}]

OptionsInit ==
  /\ \E opts \in RawOptions : useHistoryState(0, opts)
  /\ HeapIdle

\* The length of the history does not depend on the values written: the
\* callers of this specification write the initial value only, which lets
\* the history reach the default maxHistory.
OneUpdate == {[function |-> FALSE, value |-> 0]}

OptionsNext ==
  \/ \E value \in OneUpdate : hookSetState(value)
  \/ timerFires
  \/ hookUndo
  \/ hookRedo
  \/ hookReset
  \/ hookClear
  \/ \E index \in HookIndices : hookGoToIndex(index)
  \/ render
  \/ unmount

OptionsSpec == OptionsInit /\ [][OptionsNext]_vars

\* The hook without debouncing in a component that renders it with other
\* arguments from time to time.
PropsInit ==
  /\ \E initialState \in Values, maxHistory \in 1..MaxHookHistory, enableRedo \in BOOLEAN :
       useHistoryState(initialState,
                       [maxHistory |-> Some(maxHistory), debounceMs |-> Some(0),
                        enableRedo |-> Some(enableRedo), onValueChange |-> FALSE])
  /\ HeapIdle

PropsNext ==
  \/ \E value \in Updates : hookSetState(value)
  \/ hookUndo
  \/ hookRedo
  \/ hookReset
  \/ hookClear
  \/ \E index \in HookIndices : hookGoToIndex(index)
  \/ render
  \/ unmount
  \/ \E initialState \in Values, maxHistory \in 1..MaxHookHistory, enableRedo \in BOOLEAN :
       rerender(initialState,
                [maxHistory |-> Some(maxHistory), debounceMs |-> Some(0),
                 enableRedo |-> Some(enableRedo), onValueChange |-> FALSE])

PropsSpec == PropsInit /\ [][PropsNext]_vars

\* The hook without debouncing whose callers also record null and undefined.
NullableUpdates ==
  Updates \cup {[function |-> FALSE, value |-> v] : v \in {Null, Undefined}}

NullableInit ==
  /\ \E initialState \in Values, maxHistory \in 1..MaxHookHistory, enableRedo \in BOOLEAN :
       useHistoryState(initialState,
                       [maxHistory |-> Some(maxHistory), debounceMs |-> Some(0),
                        enableRedo |-> Some(enableRedo), onValueChange |-> FALSE])
  /\ HeapIdle

NullableNext ==
  \/ \E value \in NullableUpdates : hookSetState(value)
  \/ hookUndo
  \/ hookRedo
  \/ hookReset
  \/ hookClear
  \/ \E index \in HookIndices : hookGoToIndex(index)
  \/ render
  \/ unmount

NullableSpec == NullableInit /\ [][NullableNext]_vars

\* The manager created directly with maxHistory = 0.
UnboundedInit ==
  /\ \E initialState \in Values, enableRedo \in BOOLEAN : newManager(initialState, 0, enableRedo)
  /\ HeapIdle
  /\ HookIdle

UnboundedNext ==
  \/ getState /\ UNCHANGED <<heapVars, hookVars>>
  \/ \E value \in Values :
       /\ Len(currentState.history) < MaxUnboundedLength
       /\ setState(value)
       /\ UNCHANGED <<heapVars, hookVars>>
  \/ undo /\ UNCHANGED <<heapVars, hookVars>>
  \/ redo /\ UNCHANGED <<heapVars, hookVars>>
  \/ reset /\ UNCHANGED <<heapVars, hookVars>>
  \/ clear /\ UNCHANGED <<heapVars, hookVars>>
  \/ \E index \in Indices : goToIndex(index) /\ UNCHANGED <<heapVars, hookVars>>

UnboundedSpec == UnboundedInit /\ [][UnboundedNext]_vars

\* ------------------------------------------------------------ properties

\* The fields of the held state and of the state the latest call was applied to.
history == currentState.history

currentIndex == currentState.currentIndex

pre == last.pre

\* The first n elements of s, and the last n elements of s (all of s when it is shorter).
FirstN(s, n) == [i \in 1..(IF n < Len(s) THEN n ELSE Len(s)) |-> s[i]]

LastN(s, n) ==
  LET m == IF n < Len(s) THEN n ELSE Len(s)
  IN [i \in 1..m |-> s[Len(s) - m + i]]

\* C1: for a manager created with maxHistory >= 1, after any sequence of calls
\* the held state has 1 <= history.length <= maxHistory and
\* 0 <= currentIndex <= history.length - 1.
C1_Bounds ==
  /\ 1 <= Len(history)
  /\ Len(history) <= created.options.maxHistory
  /\ 0 <= currentIndex
  /\ currentIndex <= Len(history) - 1

\* A write at the last index of a full history of more than one entry.
C1_Witness ==
  /\ last.type = "SET_STATE"
  /\ Len(pre.history) = created.options.maxHistory
  /\ pre.currentIndex = Len(pre.history) - 1
  /\ created.options.maxHistory >= 2

\* C2: setState(v) yields history' = the last maxHistory elements of
\* history[0..currentIndex] followed by v, currentIndex' = length(history') - 1,
\* history'[currentIndex'] = v, and leaves initialState as it was.
C2_SetStateResult ==
  last.type = "SET_STATE" =>
    /\ history = LastN(FirstN(pre.history, pre.currentIndex + 1) \o <<last.payload>>,
                       created.options.maxHistory)
    /\ currentIndex = Len(history) - 1
    /\ At(history, currentIndex) = last.payload
    /\ currentState.initialState = pre.initialState

\* A write that both truncates a future and evicts nothing, and one that evicts,
\* are both reached; the witness is the evicting one with a new value.
C2_Witness ==
  /\ last.type = "SET_STATE"
  /\ pre.currentIndex + 2 > created.options.maxHistory
  /\ created.options.maxHistory >= 2
  /\ last.payload # At(pre.history, pre.currentIndex)

\* C3: a setState made while currentIndex < history.length - 1 leaves no entry
\* that was after the cursor (every entry before the new one comes, in order,
\* from history[0..currentIndex]), puts the cursor at the last index, and redo
\* is unavailable right after: canRedo is false and redo() changes nothing.
C3_RedoInvalidated ==
  /\ (last.type = "SET_STATE" /\ pre.currentIndex < Len(pre.history) - 1) =>
       /\ Len(history) <= pre.currentIndex + 2
       /\ \A j \in 1..(Len(history) - 1) :
            history[j] = pre.history[j + (pre.currentIndex + 2 - Len(history))]
       /\ history[Len(history)] = last.payload
       /\ currentIndex = Len(history) - 1
       /\ ~canRedo(currentState, options)
       /\ historyReducer(currentState, [type |-> "REDO"], options) = currentState
  /\ (last.type = "REDO" /\ prior.type = "SET_STATE" /\ prior.index < prior.length - 1) =>
       currentState = pre

\* redo() called right after a write that was made behind the last index, with redo enabled.
C3_Witness ==
  /\ last.type = "REDO"
  /\ prior.type = "SET_STATE"
  /\ prior.index < prior.length - 1
  /\ options.enableRedo
  /\ Len(history) >= 2

\* C4: after more than maxHistory setState calls in a row, history.length is
\* maxHistory and history is the most recent maxHistory written values in
\* write order.
C4_Eviction ==
  Len(writes) > created.options.maxHistory =>
    /\ Len(history) = created.options.maxHistory
    /\ history = LastN(writes, created.options.maxHistory)

\* maxHistory + 1 writes in a row, not all of the same value.
C4_Witness ==
  /\ Len(writes) > created.options.maxHistory
  /\ created.options.maxHistory >= 2
  /\ \E i, j \in 1..Len(history) : history[i] # history[j]

\* C5: undo() decrements currentIndex by one when currentIndex > 0 and otherwise
\* leaves the whole state unchanged; history is unchanged in both cases, and
\* undo at currentIndex == 0 is idempotent.
C5_Undo ==
  last.type = "UNDO" =>
    /\ pre.currentIndex > 0 => currentState = [pre EXCEPT !.currentIndex = pre.currentIndex - 1]
    /\ pre.currentIndex <= 0 => currentState = pre
    /\ history = pre.history
    /\ currentIndex >= 0
    /\ currentIndex = 0 => historyReducer(currentState, [type |-> "UNDO"], options) = currentState

\* undo() called again right after an undo() that was already at index 0.
C5_Witness ==
  /\ last.type = "UNDO"
  /\ prior.type = "UNDO"
  /\ prior.index = 0
  /\ pre.currentIndex = 0
  /\ Len(history) >= 2

\* C6: redo() increments currentIndex by one only when enableRedo is true and
\* currentIndex < history.length - 1; in every other case it leaves the whole
\* state unchanged; enableRedo is the value given at creation throughout.
C6_Redo ==
  /\ options = created.options
  /\ last.type = "REDO" =>
       IF created.options.enableRedo /\ pre.currentIndex < Len(pre.history) - 1
       THEN currentState = [pre EXCEPT !.currentIndex = pre.currentIndex + 1]
       ELSE currentState = pre

\* redo() with redo disabled while later entries exist.
C6_Witness ==
  /\ last.type = "REDO"
  /\ ~created.options.enableRedo
  /\ pre.currentIndex < Len(pre.history) - 1

C8_Reset ==
  last.type = "RESET" =>
    /\ history = <<created.initialState>>
    /\ currentIndex = 0

\* reset() from a full history that no longer holds the initial value.
C8_Witness ==
  /\ last.type = "RESET"
  /\ Len(pre.history) >= 2
  /\ \A i \in 1..Len(pre.history) : pre.history[i] # created.initialState

\* C9: clear() yields a history of length 1 whose element is history[currentIndex]
\* of the state before the call, with currentIndex == 0 and initialState unchanged.
C9_Clear ==
  last.type = "CLEAR" =>
    /\ Len(history) = 1
    /\ history[1] = At(pre.history, pre.currentIndex)
    /\ currentIndex = 0
    /\ currentState.initialState = pre.initialState

\* clear() with the cursor behind the last index, on a snapshot that is neither
\* the newest entry nor the initial value.
C9_Witness ==
  /\ last.type = "CLEAR"
  /\ pre.currentIndex < Len(pre.history) - 1
  /\ At(pre.history, pre.currentIndex) # At(pre.history, Len(pre.history) - 1)
  /\ At(pre.history, pre.currentIndex) # created.initialState

\* C10: setState(v) immediately followed by undo() leaves history[currentIndex]
\* equal to the snapshot that was current before the setState, provided the
\* setState evicted nothing (truncated length + 1 <= maxHistory).
C10_SetThenUndo ==
  (/\ last.type = "UNDO"
   /\ prior.type = "SET_STATE"
   /\ prior.index + 2 <= created.options.maxHistory) =>
    At(history, currentIndex) = prior.current

\* undo() right after a write made at index >= 1 without eviction, the written
\* value differing from the snapshot that was current.
C10_Witness ==
  /\ last.type = "UNDO"
  /\ prior.type = "SET_STATE"
  /\ prior.index >= 1
  /\ prior.index + 2 <= created.options.maxHistory
  /\ At(pre.history, pre.currentIndex) # prior.current

\* The entries of a history, as a set.
Entries(h) == {h[i] : i \in 1..Len(h)}

\* h2 keeps every entry of h1 at its position.
Keeps(h1, h2) ==
  /\ Len(h2) >= Len(h1)
  /\ \A i \in 1..Len(h1) : h2[i] = h1[i]

\* C11 as stated: setState is the only operation that removes entries; undo,
\* redo, reset, clear, goToIndex and getState remove no entry that lies before
\* or after the cursor.
C11_OnlySetStateRemoves ==
  last.type \in {"UNDO", "REDO", "RESET", "CLEAR", "GO_TO_INDEX", "GET_STATE"} =>
    Keeps(pre.history, history)

\* C11 as amended: undo, redo, goToIndex and getState remove no entry (history
\* is unchanged); reset and clear, like setState, do remove entries: reset
\* leaves only initialState, clear leaves only the current snapshot.
C11_OnlyWritesResetClearRemove ==
  /\ last.type \in {"UNDO", "REDO", "GO_TO_INDEX", "GET_STATE"} => history = pre.history
  /\ last.type \in {"RESET", "CLEAR"} => Len(history) = 1

\* goToIndex moving the cursor back from the last index of a history of three or more.
C11_Witness ==
  /\ last.type = "GO_TO_INDEX"
  /\ Len(pre.history) >= 3
  /\ pre.currentIndex = Len(pre.history) - 1
  /\ currentIndex = 0

\* C12 as stated: from a state whose history does not contain initialState, no
\* operation other than reset produces a history that contains it.
C12_OnlyResetReintroduces ==
  (/\ last.type # "RESET"
   /\ created.initialState \notin Entries(pre.history)) =>
    created.initialState \notin Entries(history)

\* C12 as amended: from a state whose history does not contain initialState, no
\* operation other than reset, and other than a setState whose value is equal
\* to initialState, produces a history that contains it.
C12_OnlyResetOrEqualWriteReintroduces ==
  (/\ last.type # "RESET"
   /\ ~(last.type = "SET_STATE" /\ last.payload = created.initialState)
   /\ created.initialState \notin Entries(pre.history)) =>
    created.initialState \notin Entries(history)

\* clear() on a history of two or more entries that no longer holds the initial value.
C12_Witness ==
  /\ last.type = "CLEAR"
  /\ Len(pre.history) >= 2
  /\ created.initialState \notin Entries(pre.history)

\* A well-formed HistoryState: the three fields, a non-empty history of
\* snapshot values, a cursor inside it and a snapshot value as initialState.
IsHistoryState(s) ==
  /\ DOMAIN s = {"history", "currentIndex", "initialState"}
  /\ s.history \in Seq(Values)
  /\ Len(s.history) >= 1
  /\ s.currentIndex \in 0..(Len(s.history) - 1)
  /\ s.initialState \in Values

\* Every action a caller can pass to the reducer.
Actions ==
  {[type |-> t] : t \in {"UNDO", "REDO", "RESET", "CLEAR"}}
    \cup {[type |-> "SET_STATE", payload |-> v] : v \in Values}
    \cup {[type |-> "GO_TO_INDEX", payload |-> i] : i \in Indices}

\* C14: in every reachable state every operation with every input returns a
\* HistoryState and never an error; nothing-to-undo and nothing-to-redo show as
\* an unchanged result, an index outside the history as a clamped one.
C14_NeverFails ==
  /\ IsHistoryState(currentState)
  /\ \A a \in Actions : IsHistoryState(historyReducer(currentState, a, options))
  /\ (last.type = "UNDO" /\ IsHistoryState(pre) /\ pre.currentIndex = 0) => currentState = pre
  /\ (last.type = "REDO" /\ IsHistoryState(pre) /\ pre.currentIndex = Len(pre.history) - 1) =>
       currentState = pre
  /\ (last.type = "GO_TO_INDEX" /\ IsHistoryState(pre) /\ last.payload > Len(pre.history) - 1) =>
       currentState = [pre EXCEPT !.currentIndex = Len(pre.history) - 1]
  /\ (last.type = "GO_TO_INDEX" /\ IsHistoryState(pre) /\ last.payload < 0) =>
       currentState = [pre EXCEPT !.currentIndex = 0]

\* goToIndex beyond the last index, called right after an undo() that had nothing to undo.
C14_Witness ==
  /\ last.type = "GO_TO_INDEX"
  /\ last.payload > Len(pre.history)
  /\ prior.type = "UNDO"
  /\ prior.index = 0
  /\ Len(history) >= 2

\* C15: initialState of the held state equals the value given at creation after
\* any sequence of operations.
C15_InitialStateFixed ==
  currentState.initialState = created.initialState

\* reset() right after a clear() that kept a snapshot other than the initial value.
C15_Witness ==
  /\ last.type = "RESET"
  /\ prior.type = "CLEAR"
  /\ prior.current # created.initialState

\* The calls that replace the held state.
Mutating == {"SET_STATE", "UNDO", "REDO", "RESET", "CLEAR", "GO_TO_INDEX"}

\* C16: getState() never changes the held state and returns the HistoryState
\* the most recent mutating call returned (the seed state if there was none);
\* every mutating call returns the state it has just stored.
C16_GetState ==
  /\ last.type = "GET_STATE" =>
       /\ currentState = pre
       /\ returned = currentState
       /\ returned = handed
  /\ last.type \in Mutating =>
       /\ returned = currentState
       /\ handed = returned
  /\ last.type = "CREATE" => handed = seed(created.initialState)

\* getState() called right after an undo() that moved the cursor.
C16_Witness ==
  /\ last.type = "GET_STATE"
  /\ prior.type = "UNDO"
  /\ prior.index > 0
  /\ returned # seed(created.initialState)

\* C17: right after creation, before any operation, the state is
\* history == [initial], currentIndex == 0, initialState == initial, which the
\* hook shows as state == initial, canUndo == false, canRedo == false.
C17_Seed ==
  last.type = "CREATE" =>
    /\ history = <<created.initialState>>
    /\ currentIndex = 0
    /\ currentState.initialState = created.initialState
    /\ resultState(currentState) = created.initialState
    /\ ~canUndo(currentState)
    /\ ~canRedo(currentState, options)

\* A manager just created with redo enabled and room for more than one entry.
C17_Witness ==
  /\ last.type = "CREATE"
  /\ options.enableRedo
  /\ options.maxHistory >= 2
  /\ returned = currentState

\* The heap reducer and the reducer agree on what the returned state shows.
HeapAgrees ==
  \A a \in Actions :
    LET out == heapReducer(heapOf(currentState), 1, a, options)
    IN deref(out, out.state) = historyReducer(currentState, a, options)

\* C13 as stated: no call changes an object in place and every operation
\* produces a new state record, so that a HistoryState returned earlier keeps
\* the contents and currentIndex it had when returned.
C13_AlwaysNewRecord ==
  /\ ~heapLast.mutated
  /\ heapLast.type \in Mutating => ~heapLast.sameRecord

\* C13 as amended: no call changes in place an object that existed before it,
\* so a HistoryState returned earlier keeps the contents and currentIndex it
\* had when returned; every operation that changes the state produces a new
\* state record, and the only operations that return the record they were
\* given are undo and redo with nothing to do (and getState).
C13_NeverMutatedInPlace ==
  /\ ~heapLast.mutated
  /\ (heapLast.type \in Mutating /\ heapLast.changed) => ~heapLast.sameRecord
  /\ (heapLast.type \in Mutating /\ heapLast.sameRecord) =>
       /\ heapLast.type \in {"UNDO", "REDO"}
       /\ ~heapLast.changed
  /\ heapLast.type \in Mutating \ {"UNDO", "REDO"} => ~heapLast.sameRecord

\* A write made behind the last index of a history of three entries: the
\* entries it drops are still in the array of the state returned before.
C13_Witness ==
  /\ heapLast.type = "SET_STATE"
  /\ heapLast.length >= 3
  /\ heapLast.index < heapLast.length - 1
  /\ heapLast.changed

\* C19: with an onValueChange callback given, every setState applied to the
\* history (at once when debounceMs is 0, or when the timer fires) calls
\* onValueChange exactly once, with the newly recorded value.
C19_OnValueChangeCalled ==
  (hookOptions.onValueChange /\ hookLast.applied) =>
    onValueChangeCalls = <<At(currentState.history, currentState.currentIndex)>>

\* C20: undo, redo, reset, clear and goToIndex never call onValueChange; it is
\* called in no step other than one that applies a setState.
C20_OnlyWritesNotify ==
  /\ hookLast.type \in {"undo", "redo", "reset", "clear", "goToIndex"} => onValueChangeCalls = <<>>
  /\ ~hookLast.applied => onValueChangeCalls = <<>>

\* An undo through the hook, with a callback given, that left the cursor
\* behind the last index.
C20_Witness ==
  /\ hookLast.type = "undo"
  /\ hookOptions.onValueChange
  /\ reactState = currentState
  /\ currentState.currentIndex < Len(currentState.history) - 1

\* C21: with debounceMs > 0 a call of the hook's setState changes nothing at
\* once: it leaves one timer to fire, carrying the value of this call, in
\* place of the one an earlier call left; when the timer fires, exactly one
\* entry, the value of the latest call, is appended after the cursor, and no
\* timer is left.
C21_Debounce ==
  [][ /\ (hookLast'.type = "setState" /\ hookOptions.debounceMs > 0) =>
           /\ currentState' = currentState
           /\ reactState' = reactState
           /\ debounceRef'.pending
           /\ ~hookLast'.arg.function => debounceRef'.value = hookLast'.arg.value
      /\ hookLast'.type = "timer" =>
           /\ debounceRef.pending
           /\ ~debounceRef'.pending
           /\ currentState'.history =
                LastN(Append(FirstN(history, currentIndex + 1), debounceRef.value),
                      options.maxHistory)
           /\ currentState'.currentIndex = Len(currentState'.history) - 1
           /\ reactState' = currentState'
    ]_vars

\* The timer of a call that had cleared the timer of an earlier call has
\* fired, and its value is the newest entry.
C21_Witness ==
  /\ hookLast.type = "timer"
  /\ hookLast.cancelled
  /\ hookOptions.debounceMs > 0
  /\ ~debounceRef.pending
  /\ At(history, currentIndex) = debounceRef.value

\* C22: when the hook's setState is called with a function, the value
\* recorded (at once, or carried by the timer when debounceMs > 0) is the
\* function applied to the manager's history[currentIndex] at the time of
\* the call, also for calls made one after the other before a render.
C22_UpdaterSeesCurrent ==
  [][ (hookLast'.type = "setState" /\ hookLast'.arg.function) =>
        LET recorded == IF hookOptions.debounceMs > 0
                        THEN debounceRef'.value
                        ELSE At(currentState'.history, currentState'.currentIndex)
        IN recorded = applyUpdater(At(history, currentIndex))
    ]_vars

\* C23: in every snapshot a render of the hook exposes, canUndo is true
\* exactly when undo() would move the cursor and canRedo exactly when redo()
\* would; canRedo is never true when enableRedo is false; and the snapshot
\* stored by reset() and by clear() has both false.
C23_CanUndoCanRedo ==
  /\ hookLast.type \in {"mount", "render"} =>
       /\ canUndo(historyState) <=> UNDO(currentState).currentIndex # currentIndex
       /\ canRedo(historyState, options) <=>
            REDO(currentState, options).currentIndex # currentIndex
  /\ ~options.enableRedo =>
       ~canRedo(historyState, options) /\ ~canRedo(reactState, options)
  /\ hookLast.type \in {"reset", "clear"} =>
       ~canUndo(reactState) /\ ~canRedo(reactState, options)

\* A render with redo disabled that exposes a cursor behind the last index.
C23_Witness ==
  /\ hookLast.type = "render"
  /\ ~options.enableRedo
  /\ historyState.currentIndex < Len(historyState.history) - 1

\* C24: useHistoryState throws before it creates a manager or a state when
\* an option is invalid: 'maxHistory must be a positive number' for a
\* maxHistory below 1 (the first check), 'debounceMs must be a non-negative
\* number' for a debounceMs below 0; absent or valid options never throw.
C24_Validation ==
  LET badMaxHistory == props.maxHistory # None /\ props.maxHistory[1] < 1
      badDebounceMs == props.debounceMs # None /\ props.debounceMs[1] < 0
  IN /\ badMaxHistory => thrown = "maxHistory must be a positive number"
     /\ (badDebounceMs /\ ~badMaxHistory) =>
          thrown = "debounceMs must be a non-negative number"
     /\ (~badMaxHistory /\ ~badDebounceMs) =>
          /\ thrown = "none"
          /\ created # NotCreated
          /\ IsHistoryState(currentState)
          /\ IsHistoryState(historyState)
     /\ thrown # "none" =>
          /\ ~mounted
          /\ created = NotCreated
          /\ currentState = NotCreated
          /\ historyState = NotCreated

\* The hook called with a negative debounceMs and no maxHistory.
C24_Witness ==
  /\ props.maxHistory = None
  /\ props.debounceMs = Some(0 - 1)
  /\ thrown = "debounceMs must be a non-negative number"

\* C25: with no options given the hook behaves as maxHistory = 50,
\* debounceMs = 0 and enableRedo = true: a write is applied at once, redo
\* moves the cursor forward when there is an entry ahead, and no history,
\* held or exposed, ever has more than 50 entries.
C25_Defaults ==
  props = NoOptions =>
    /\ thrown = "none"
    /\ options = [maxHistory |-> 50, enableRedo |-> TRUE]
    /\ hookOptions.debounceMs = 0
    /\ Len(history) <= 50
    /\ Len(historyState.history) <= 50
    /\ Len(reactState.history) <= 50
    /\ ~debounceRef.pending
    /\ hookLast.type = "setState" => hookLast.applied
    /\ (hookLast.type = "setState" /\ hookLast.run = 1) =>
         /\ history =
              LastN(Append(FirstN(historyState.history, historyState.currentIndex + 1),
                           hookLast.arg.value), 50)
         /\ currentIndex = Len(history) - 1
    /\ (hookLast.type = "redo" /\ hookLast.run = 1
          /\ historyState.currentIndex < Len(historyState.history) - 1) =>
         currentIndex = historyState.currentIndex + 1

\* With no options given, a write made when the history already had 50
\* entries and the cursor was on the last.
C25_Witness ==
  /\ props = NoOptions
  /\ hookLast.type = "setState"
  /\ hookLast.run = 1
  /\ Len(historyState.history) = 50
  /\ historyState.currentIndex = 49
  /\ Len(history) = 50

C27_SnapshotIsManagerState ==
  /\ hookLast.type \in {"mount", "render", "rerender"} => historyState = currentState
  /\ hookLast.type \in {"setState", "undo", "redo", "reset", "clear", "goToIndex"} =>
       reactState = currentState

\* C28: the state field of the hook's result always equals
\* history[currentIndex] of the exposed snapshot, whatever value was
\* recorded, null and undefined included.
C28_StateIsCurrentEntry ==
  /\ resultState(historyState) = At(historyState.history, historyState.currentIndex)
  /\ resultState(reactState) = At(reactState.history, reactState.currentIndex)

\* C29: goToIndex does not look at enableRedo: on a manager with enableRedo
\* false and the cursor behind the last index, goToIndex(currentIndex + 1)
\* moves the cursor one forward, as redo does when enableRedo is true, and
\* leaves the history as it is.
C29_GoToIndexIgnoresEnableRedo ==
  (/\ last.type = "GO_TO_INDEX"
   /\ ~options.enableRedo
   /\ pre.currentIndex < Len(pre.history) - 1
   /\ last.payload = pre.currentIndex + 1) =>
    /\ currentState = REDO(pre, [options EXCEPT !.enableRedo = TRUE])
    /\ currentIndex = pre.currentIndex + 1
    /\ history = pre.history
    /\ REDO(pre, options) = pre

\* With redo disabled, goToIndex(currentIndex + 1) made from a cursor that
\* an undo had moved back.
C29_Witness ==
  /\ last.type = "GO_TO_INDEX"
  /\ ~options.enableRedo
  /\ prior.type = "UNDO"
  /\ pre.currentIndex < Len(pre.history) - 1
  /\ last.payload = pre.currentIndex + 1
  /\ currentIndex = pre.currentIndex + 1

\* The actions the hook's function named type passes to the manager.
ActionsOf(type) ==
  CASE type = "undo" -> {[type |-> "UNDO"]}
    [] type = "redo" -> {[type |-> "REDO"]}
    [] type = "reset" -> {[type |-> "RESET"]}
    [] type = "clear" -> {[type |-> "CLEAR"]}
    [] type = "goToIndex" -> {[type |-> "GO_TO_INDEX", payload |-> i] : i \in HookIndices}
    [] OTHER -> {}

\* C30: with debounceMs > 0, undo, redo, reset, clear and goToIndex act on
\* the manager at once and leave the timer of a write still to come, and the
\* value it carries, as they are; the value carried is the one resolved when
\* setState was called; when the timer fires, that value is written after
\* the cursor those operations left.
C30_PendingWriteSurvives ==
  [][ hookOptions.debounceMs > 0 =>
        /\ hookLast'.type \in {"undo", "redo", "reset", "clear", "goToIndex"} =>
             /\ debounceRef' = debounceRef
             /\ \E action \in ActionsOf(hookLast'.type) :
                  currentState' = historyReducer(currentState, action, options)
             /\ reactState' = currentState'
        /\ hookLast'.type = "setState" =>
             /\ debounceRef'.pending
             /\ debounceRef'.value =
                  IF hookLast'.arg.function
                  THEN applyUpdater(resultState(historyState))
                  ELSE hookLast'.arg.value
        /\ hookLast'.type = "timer" =>
             /\ debounceRef.pending
             /\ currentState' = SET_STATE(currentState, debounceRef.value, options)
    ]_vars

\* An undo that moved the cursor back while a debounced write was still to
\* come: the timer and its value are still there.
C30_Witness ==
  /\ hookOptions.debounceMs > 0
  /\ hookLast.type = "undo"
  /\ debounceRef.pending
  /\ currentIndex < Len(history) - 1
  /\ reactState = currentState

\* C31: when the component unmounts while a debounced write is still to come,
\* its timer is cleared and the write is never applied: the unmount itself
\* and every step after it leave the state held by the manager as it is, and
\* no timer is left to fire.
C31_NoWriteAfterUnmount ==
  [][ /\ ~mounted' => currentState' = currentState
      /\ ~mounted' => ~debounceRef'.pending
      /\ hookLast'.type = "timer" => mounted
    ]_vars

\* The component unmounted while a write was still to come: the timer was
\* cleared, and the value it carried is not the current entry.
C31_Witness ==
  /\ ~mounted
  /\ hookLast.type = "unmount"
  /\ hookLast.cancelled
  /\ debounceRef.set
  /\ ~debounceRef.pending
  /\ debounceRef.value # At(history, currentIndex)

\* C32: one setState evicts at most one entry, and evicts one only when the
\* cursor was at the last index and history.length was maxHistory before the
\* call; a setState made with the cursor before the last index evicts
\* nothing: the history is the entries up to the cursor and the new value.
C32_EvictsAtMostOne ==
  last.type = "SET_STATE" =>
    LET kept == FirstN(pre.history, pre.currentIndex + 1)
        evicted == Len(kept) + 1 - Len(history)
    IN /\ evicted \in {0, 1}
       /\ history = LastN(Append(kept, last.payload), Len(kept) + 1 - evicted)
       /\ evicted = 1 =>
            /\ pre.currentIndex = Len(pre.history) - 1
            /\ Len(pre.history) = options.maxHistory
       /\ pre.currentIndex < Len(pre.history) - 1 =>
            /\ evicted = 0
            /\ history = Append(kept, last.payload)

\* A write made with the cursor before the last index of a full history:
\* the entries after the cursor are dropped and the oldest entry stays.
C32_Witness ==
  /\ last.type = "SET_STATE"
  /\ Len(pre.history) = options.maxHistory
  /\ pre.currentIndex > 0
  /\ pre.currentIndex < Len(pre.history) - 1
  /\ Len(history) = pre.currentIndex + 2
  /\ history[1] = pre.history[1]

\* C33: with enableRedo true, undo and redo are inverse on the cursor and
\* leave history alone: from a state with currentIndex > 0, undo() then
\* redo() gives the same state back; from a state with
\* currentIndex < history.length - 1, redo() then undo() gives it back.
C33_UndoRedoInverse ==
  options.enableRedo =>
    /\ currentIndex > 0 => REDO(UNDO(currentState), options) = currentState
    /\ currentIndex < Len(history) - 1 => UNDO(REDO(currentState, options)) = currentState
    /\ UNDO(currentState).history = history
    /\ REDO(currentState, options).history = history
    /\ (last.type = "REDO" /\ prior.type = "UNDO" /\ prior.index > 0) =>
         /\ currentIndex = prior.index
         /\ Len(history) = prior.length
         /\ At(history, currentIndex) = prior.current
         /\ history = pre.history
    /\ (last.type = "UNDO" /\ prior.type = "REDO" /\ prior.index < prior.length - 1) =>
         /\ currentIndex = prior.index
         /\ Len(history) = prior.length
         /\ At(history, currentIndex) = prior.current
         /\ history = pre.history

\* undo() then redo() called from the middle of a history of three entries.
C33_Witness ==
  /\ options.enableRedo
  /\ last.type = "REDO"
  /\ prior.type = "UNDO"
  /\ prior.index = 1
  /\ prior.length = 3
  /\ currentIndex = 1
  /\ pre.currentIndex = 0

\* C34: the manager applies every setState in full and never skips one:
\* setState(v) with v equal to the current snapshot still appends an entry
\* after the cursor (then trimmed to maxHistory), so with maxHistory >= 2 the
\* history ends with two equal entries and undo leaves the visible value as
\* it is.
C34_NoDeduplication ==
  (last.type = "SET_STATE" /\ last.payload = At(pre.history, pre.currentIndex)) =>
    /\ history =
         LastN(Append(FirstN(pre.history, pre.currentIndex + 1), last.payload),
               options.maxHistory)
    /\ currentIndex = Len(history) - 1
    /\ options.maxHistory >= 2 =>
         /\ Len(history) >= 2
         /\ history[Len(history)] = history[Len(history) - 1]
         /\ UNDO(currentState).currentIndex = currentIndex - 1
         /\ resultState(UNDO(currentState)) = resultState(currentState)

\* A write of the value that was already current, made with entries after
\* the cursor: the history has two equal entries at its end.
C34_Witness ==
  /\ last.type = "SET_STATE"
  /\ last.payload = At(pre.history, pre.currentIndex)
  /\ pre.currentIndex < Len(pre.history) - 1
  /\ Len(history) = pre.currentIndex + 2
  /\ history[Len(history)] = history[Len(history) - 1]

\* C35: createHistoryManager checks no option: created with maxHistory = 0
\* it holds a well-formed state, and setState then evicts nothing (the last
\* 0 elements are taken as the whole array): the history is the entries up
\* to the cursor and the new value, one longer on each write at the last
\* index, and history.length <= maxHistory does not hold.
C35_ZeroMaxHistoryUnbounded ==
  options.maxHistory = 0 =>
    /\ created.options.maxHistory = 0
    /\ IsHistoryState(currentState)
    /\ Len(history) > options.maxHistory
    /\ last.type = "SET_STATE" =>
         /\ history = Append(FirstN(pre.history, pre.currentIndex + 1), last.payload)
         /\ currentIndex = Len(history) - 1
         /\ pre.currentIndex = Len(pre.history) - 1 => Len(history) = Len(pre.history) + 1

\* A second write in a row at the last index of a manager created with
\* maxHistory = 0: the history has three entries.
C35_Witness ==
  /\ options.maxHistory = 0
  /\ last.type = "SET_STATE"
  /\ Len(writes) >= 2
  /\ Len(history) >= 3
  /\ history[1] = created.initialState

====
